---- MODULE Spec2Model ----
(***************************************************************************)
(* A model of dyneusr's DyNeuGraph (src/dyneusr/core.py): the session      *)
(* facade that turns a Mapper graph into the node adjacency matrix A, the  *)
(* membership matrix M, the temporal connectivity matrix TCM and the       *)
(* mixtures, and annotates the stored processed graph.                     *)
(*                                                                         *)
(* Python values are modelled as follows.                                  *)
(*   - None, a dict, a list, a scalar: a record with a `kind` field;       *)
(*     a dict with string keys that the code looks up by name (the         *)
(*     serialized graph) is a TLA+ function on its keys; a dict the code   *)
(*     iterates over is the sequence `items` of its <<key, value>> pairs,  *)
(*     in insertion order.                                                 *)
(*   - A numpy array: [shape, val], val the sequence of rows; a 1-d array  *)
(*     is a plain sequence.  Positions are 0-based, as in numpy.           *)
(*   - A networkx graph: an object on the heap, referred to by its id.     *)
(***************************************************************************)
EXTENDS Integers, Sequences, FiniteSets, TLC

VARIABLES self, heap, nextId, origin, last, calls

vars == <<self, heap, nextId, origin, last, calls>>

(***************************************************************************)
(* Bounds of the model.                                                    *)
(***************************************************************************)
\* the number of calls made on the facade after its construction
MaxCalls == 2
\* the longest label sequence y
MaxLen == 3

(***************************************************************************)
(* Generic helpers for Python containers.                                  *)
(***************************************************************************)
None == [kind |-> "None", items |-> <<>>]
PyDict(items) == [kind |-> "dict", items |-> items]
PyList(items) == [kind |-> "list", items |-> items]
Scalar(v) == [kind |-> "scalar", items |-> <<v>>]

EmptyMap == [k \in {} |-> 0]

\* d[k] = v on a mapping
Put(d, k, v) == [x \in DOMAIN d \cup {k} |-> IF x = k THEN v ELSE d[x]]

\* dict.update(e) / {**d, **e}: the entries of e take precedence
Update(d, e) == [x \in DOMAIN d \cup DOMAIN e |-> IF x \in DOMAIN e THEN e[x] ELSE d[x]]

Range(s) == {s[i] : i \in 1..Len(s)}

\* the keys of an iterated dict, in iteration order
Keys(items) == [i \in 1..Len(items) |-> items[i][1]]

\* zip(a, b): pairs up to the shorter of the two
Min(a, b) == IF a <= b THEN a ELSE b
Zip(a, b) == [i \in 1..Min(Len(a), Len(b)) |-> <<a[i], b[i]>>]

\* dict(pairs): a later pair with the same key overwrites an earlier one
RECURSIVE DictOfPairs(_)
DictOfPairs(pairs) ==
  IF pairs = <<>> THEN EmptyMap
  ELSE LET n == Len(pairs)
       IN Put(DictOfPairs(SubSeq(pairs, 1, n - 1)), pairs[n][1], pairs[n][2])

\* a finite set of integers as an ascending sequence
RECURSIVE SortInts(_)
SortInts(S) ==
  IF S = {} THEN <<>>
  ELSE LET m == CHOOSE x \in S : \A z \in S : x <= z
       IN <<m>> \o SortInts(S \ {m})

\* node keys are strings; KeyOrder is their sorted (lexicographic) order
KeyOrder == <<"a", "b">>
SortKeys(S) == SelectSeq(KeyOrder, LAMBDA k : k \in S)

\* numpy.arange(n)
Arange(n) == [i \in 1..n |-> i - 1]

\* the 0-based position of value v in sequence s (v occurs in s)
PosOf(s, v) == (CHOOSE i \in 1..Len(s) : s[i] = v) - 1

(***************************************************************************)
(* The values the calls are made with.                                     *)
(***************************************************************************)
\* a graph object: nodes in iteration order, each node's member time
\* indices and attribute mapping, the edges with theirs, and graph.graph
NewGraph(type, nodes, members, edges) ==
  [type    |-> type,
   nodes   |-> nodes,
   members |-> members,
   edges   |-> edges,
   attrs   |-> [n \in Range(nodes) |-> EmptyMap],
   eattrs  |-> [e \in edges |-> EmptyMap],
   graph   |-> EmptyMap]

\* G: absent, a serialized node/link form (a dict), or a networkx graph
GNone == [kind |-> "None", d |-> EmptyMap]
GDict(d) == [kind |-> "dict", d |-> d]
GNx(g) == [kind |-> "nx", d |-> g]

\* {nodes: {}, links: {}}
G_empty == GDict([nodes |-> PyDict(<<>>), links |-> PyDict(<<>>)])
\* {nodes: {a: [0,1,2], b: [2,3]}, links: {a: [b]}}
G_ab ==
  GDict([nodes |-> PyDict(<< <<"a", <<0, 1, 2>> >>, <<"b", <<2, 3>> >> >>),
         links |-> PyDict(<< <<"a", <<"b">> >> >>)])
\* {nodes: {b: [3,0,3], a: [1,0]}}: no links key, keys and members unsorted
G_ba == GDict([nodes |-> PyDict(<< <<"b", <<3, 0, 3>> >>, <<"a", <<1, 0>> >> >>)])
\* nx.Graph with nodes a, b (members as node attributes) and the edge a-b
G_nx ==
  GNx(NewGraph("Graph", <<"a", "b">>,
               [n \in {"a", "b"} |-> IF n = "a" THEN <<0, 1>> ELSE <<1>>],
               {{"a", "b"}}))

\* nx.Graph(): no nodes, no edges
G_nx0 == GNx(NewGraph("Graph", <<>>, EmptyMap, {}))

GInputs == {GNone, G_empty, G_ab, G_ba, G_nx}

\* y: absent, a plain sequence of labels, or a pandas.DataFrame with its
\* own row index (here: descending odd numbers) and one column of labels
Label(i) == IF i % 2 = 1 THEN "rest" ELSE "task"
YSeq(n) == [kind |-> "seq", index |-> <<>>, items |-> [i \in 1..n |-> Label(i)]]
YFrame(n) ==
  [kind  |-> "DataFrame",
   index |-> [i \in 1..n |-> 2 * (n - i) + 1],
   items |-> [i \in 1..n |-> Label(i)]]
YNone == [kind |-> "None", index |-> <<>>, items |-> <<>>]
YInputs == {YNone} \cup {YSeq(n) : n \in 0..MaxLen} \cup {YFrame(MaxLen)}

\* len(y)
PyLen(y) == Len(y.items)
\* iterating y: the elements of a sequence, the column labels of a DataFrame
Iter(y) == IF y.kind = "DataFrame" THEN <<"label">> ELSE y.items

XInputs == {None, Scalar("X")}

\* node_data / edge_data: attribute name -> {key -> value}
NodeDataInputs ==
  { PyDict(<<>>), None,
    PyDict(<< <<"color", PyDict(<< <<"a", "blue">> >>)>> >>),
    PyDict(<< <<"color", PyDict(<< <<"b", "blue">>, <<"z", "red">> >>)>> >>),
    PyDict(<< <<"color", Scalar("blue")>> >>) }
EdgeDataInputs ==
  { PyDict(<<>>), None,
    PyDict(<< <<"weight", PyDict(<< << <<"a", "b">>, "w1">> >>)>> >>) }

(***************************************************************************)
(* fit, lines 79-101: the inputs, the canonical graph and the ids.         *)
(***************************************************************************)
\* lines 80-82
SaveInputs(s, G, X, y) == [s EXCEPT !.G_input_ = G, !.X_ = X, !.y_ = y]

\* all pairs <<u, v>> of node keys with u not after v, in sorted order
KeyPairs ==
  LET n == Len(KeyOrder)
      all == [k \in 1..(n * n) |-> <<KeyOrder[((k - 1) \div n) + 1], KeyOrder[((k - 1) % n) + 1]>>]
  IN SelectSeq(all, LAMBDA p : PosOf(KeyOrder, p[1]) <= PosOf(KeyOrder, p[2]))

\* nx.node_link_data(g): nodes and links become lists of dicts
node_link_data(g) ==
  LET es == SelectSeq(KeyPairs, LAMBDA p : {p[1], p[2]} \in g.edges)
  IN [directed   |-> FALSE,
      multigraph |-> FALSE,
      graph      |-> g.graph,
      nodes      |-> PyList([i \in 1..Len(g.nodes) |->
                       Put(Put(g.attrs[g.nodes[i]], "members", g.members[g.nodes[i]]),
                           "id", g.nodes[i])]),
      links      |-> PyList([i \in 1..Len(es) |->
                       Put(Put(g.eattrs[{es[i][1], es[i][2]}], "source", es[i][1]),
                           "target", es[i][2])])]

\* the default skeleton of line 92: dict(nodes={}, links={})
Skeleton == [nodes |-> PyDict(<<>>), links |-> PyDict(<<>>)]

\* line 92 with the merge turned round: the defaults override G's entries
NormalizeDefaultsWin(G) ==
  LET d == IF G.kind = "nx" THEN node_link_data(G.d)
           ELSE IF G.kind = "None" THEN EmptyMap
           ELSE G.d
  IN [canonical |-> Update(d, Skeleton),
      caller    |-> G]

\* lines 85-92: the canonical graph, and the caller's G as the call leaves it
Normalize(G) ==
  LET d == IF G.kind = "nx" THEN node_link_data(G.d)      \* 86-87, on a copy
           ELSE IF G.kind = "None" THEN EmptyMap          \* 89
           ELSE G.d
  IN [canonical |-> Update(Skeleton, d),                  \* 92
      caller    |-> G]

\* what a call that raised gives back
Raised(line) == [raised |-> TRUE, line |-> line, val |-> <<>>]
Value(v) == [raised |-> FALSE, line |-> 0, val |-> v]

\* line 95: np.unique of the node keys.  Iterating a dict gives its keys;
\* iterating the node list of a node-link form gives dicts, which numpy
\* cannot order once there is more than one
NodeIds(Gc) ==
  IF Gc.nodes.kind = "dict" THEN Value(SortKeys(Range(Keys(Gc.nodes.items))))
  ELSE IF Len(Gc.nodes.items) >= 2 THEN Raised(95)
  ELSE Value(Gc.nodes.items)

\* every member index of every node, flattened
RECURSIVE AllMembers(_)
AllMembers(items) ==
  IF items = <<>> THEN {}
  ELSE Range(items[1][2]) \cup AllMembers(Tail(items))

\* y.index read without the reset
reset_index_kept(y) == y

\* y.reset_index(): the old row index becomes a column and the new row
\* index is 0..len(y)-1
reset_index(y) == [y EXCEPT !.index = Arange(PyLen(y))]

\* the member indices of all nodes in dict order, one after the other
RECURSIVE Flatten(_)
Flatten(items) == IF items = <<>> THEN <<>> ELSE items[1][2] \o Flatten(Tail(items))

\* lines 96-101 without np.unique
DataIdsFlat(Gc, y) ==
  IF Gc.nodes.kind # "dict" THEN Raised(96)
  ELSE IF y.kind = "None" THEN Value(Flatten(Gc.nodes.items))
  ELSE IF y.kind = "DataFrame" THEN Value(SortInts(Range(reset_index(y).index)))
  ELSE Value(Arange(PyLen(y)))

\* line 96 alone: y never replaces the member indices of the graph
DataIdsFromGraph(Gc, y) ==
  IF Gc.nodes.kind # "dict" THEN Raised(96)
  ELSE Value(SortInts(AllMembers(Gc.nodes.items)))

\* lines 96-101: the time index set.  G['nodes'].items() needs a dict
DataIds(Gc, y) ==
  IF Gc.nodes.kind # "dict" THEN Raised(96)
  ELSE IF y.kind = "None" THEN Value(SortInts(AllMembers(Gc.nodes.items)))
  ELSE IF y.kind = "DataFrame" THEN Value(SortInts(Range(reset_index(y).index)))
  ELSE Value(Arange(PyLen(y)))

(***************************************************************************)
(* tools.process_graph and tools.extract_matrices (dyneusr/tools), as      *)
(* sections 4.2 and 4.3 of the specification describe them.                *)
(***************************************************************************)
\* the edges a links dict {node: [neighbours]} describes
LinkEdges(items) == UNION {{{items[i][1], t} : t \in Range(items[i][2])} : i \in 1..Len(items)}

\* the processed graph: one node per key of the canonical graph, in its
\* order, with its de-duplicated member indices; one edge per link
process_graph(Gc, y) ==
  LET items == Gc.nodes.items
      keys == Keys(items)
  IN NewGraph("Graph", keys,
              [n \in Range(keys) |-> SortInts(Range(items[PosOf(keys, n) + 1][2]))],
              LinkEdges(Gc.links.items))

RECURSIVE SumSeq(_)
SumSeq(s) == IF s = <<>> THEN 0 ELSE s[1] + SumSeq(Tail(s))

ndarray(rows, cols, val) == [shape |-> <<rows, cols>>, val |-> val]

\* every member index of every node of a graph
GraphIndex(g) == SortInts(UNION {Range(g.members[n]) : n \in Range(g.nodes)})

\* A (node x node), M (time x node) and TCM = M . M^T (time x time), with
\* the nodes in sorted key order and the rows in the order of `index`
extract_matrices(g, index) ==
  LET order == SortKeys(Range(g.nodes))
      N == Len(order)
      T == Len(index)
      Mv == [t \in 1..T |-> [n \in 1..N |->
               IF index[t] \in Range(g.members[order[n]]) THEN 1 ELSE 0]]
  IN [A   |-> ndarray(N, N, [i \in 1..N |-> [j \in 1..N |->
                 IF {order[i], order[j]} \in g.edges THEN 1 ELSE 0]]),
      M   |-> ndarray(T, N, Mv),
      TCM |-> ndarray(T, T, [t \in 1..T |-> [u \in 1..T |->
                 SumSeq([n \in 1..N |-> Mv[t][n] * Mv[u][n]])]])]

(***************************************************************************)
(* fit, lines 107-122: the time-index graph, the annotations, the mixtures *)
(***************************************************************************)
\* nx.set_node_attributes(g, values, name) with values a dict: the nodes
\* of g that are keys of values get the attribute, no node is added
set_node_attributes(g, values, name) ==
  [g EXCEPT !.attrs = [n \in DOMAIN @ |->
      IF n \in DOMAIN values THEN Put(@[n], name, values[n]) ELSE @[n]]]

\* nx.set_edge_attributes(g, values, name), values keyed by <<u, v>>
set_edge_attributes(g, values, name) ==
  [g EXCEPT !.eattrs = [e \in DOMAIN @ |->
      IF \E k \in DOMAIN values : {k[1], k[2]} = e
      THEN Put(@[e], name, values[CHOOSE k \in DOMAIN values : {k[1], k[2]} = e])
      ELSE @[e]]]

\* nx.MultiGraph(TCM): a node per row position, an edge per non-zero entry
MultiGraph(TCM) ==
  LET T == TCM.shape[1]
  IN NewGraph("MultiGraph", Arange(T), [n \in 0..(T - 1) |-> <<>>],
              {{i - 1, j - 1} : <<i, j>> \in {p \in (1..T) \X (1..T) : TCM.val[p[1]][p[2]] # 0}})

\* lines 109-111.  relabel_nodes returns a relabelled copy, which line 110
\* drops; zip(data_ids, y) raises when y is None
TimeIndexGraph(TCM, data_ids, y) ==
  IF y.kind = "None" THEN Raised(111)
  ELSE Value(set_node_attributes(MultiGraph(TCM), DictOfPairs(Zip(data_ids, Iter(y))), "group"))

\* lines 114-116: dict(node_data[k]) needs a mapping
RECURSIVE AnnotateNodeData(_, _)
AnnotateNodeData(g, items) ==
  IF items = <<>> THEN Value(g)
  ELSE IF items[1][2].kind # "dict" THEN Raised(116)
  ELSE AnnotateNodeData(set_node_attributes(g, DictOfPairs(items[1][2].items), items[1][1]),
                        Tail(items))

\* lines 117-119
RECURSIVE AnnotateEdgeData(_, _)
AnnotateEdgeData(g, items) ==
  IF items = <<>> THEN Value(g)
  ELSE IF items[1][2].kind # "dict" THEN Raised(119)
  ELSE AnnotateEdgeData(set_edge_attributes(g, DictOfPairs(items[1][2].items), items[1][1]),
                        Tail(items))

\* row[row.nonzero()]: the non-zero entries themselves
NonzeroValues(row) == SelectSeq(row, LAMBDA v : v # 0)

\* row.nonzero()[0]: the positions of the non-zero entries, ascending
Nonzero(row) == SelectSeq(Arange(Len(row)), LAMBDA j : row[j + 1] # 0)

\* lines 122 and 191: one array of positions per row of TCM
Mixtures(TCM) == [t \in 1..Len(TCM.val) |-> Nonzero(TCM.val[t])]

(***************************************************************************)
(* The facade.  `self` holds its attributes; `heap` the graph objects      *)
(* they refer to (objects no attribute refers to are dropped); `last`      *)
(* describes the latest call: its outcome, the line that raised, what it   *)
(* returned, the canonical graph it handed to process_graph and the        *)
(* caller's G as the call left it.  `origin` is a history variable: the    *)
(* number of the call that computed each stored result.                    *)
(***************************************************************************)
\* a keyword argument, or the default of the signature
Arg(kw, name, default) == IF name \in DOMAIN kw THEN kw[name] ELSE default

False == [kind |-> "bool", ref |-> 0]
Ref(type, id) == [kind |-> type, ref |-> id]

RetNone == [kind |-> "None", val |-> <<>>]
RetSelf == [kind |-> "self", val |-> <<>>]
RetArray(a) == [kind |-> "ndarray", val |-> a]

Call(op, outcome, line, ret, args, canonical, caller) ==
  [op |-> op, outcome |-> outcome, line |-> line, ret |-> ret, args |-> args,
   canonical |-> canonical, caller |-> caller]

Outcome(s, h, nid, org, lst) ==
  [self |-> s, heap |-> h, nextId |-> nid, origin |-> org, last |-> lst]

\* the objects the attributes of the facade refer to
Live(s) == {s.G_, s.G} \cup (IF s.G_data_.kind = "bool" THEN {} ELSE {s.G_data_.ref})
Collect(s, h) == [id \in Live(s) \cap DOMAIN h |-> h[id]]

\* lines 126-139, with only part of the results stored
StoreFitPartial(s, org, gen, G, G_data, node_ids, data_ids, ex, mixtures) ==
  [self   |-> [s EXCEPT !.G_ = G, !.G_data_ = G_data,
                        !.node_ids_ = node_ids, !.data_ids_ = data_ids,
                        !.tcm_ = ex.TCM, !.mixtures_ = mixtures,
                        !.G = G, !.TCM = ex.TCM],
   origin |-> [org EXCEPT !.G_ = gen, !.tcm_ = gen, !.mixtures_ = gen]]

\* lines 126-133 without lines 136-139: the convenience names keep
\* what they referred to
StoreFitStale(s, org, gen, G, G_data, node_ids, data_ids, ex, mixtures) ==
  [self   |-> [s EXCEPT !.G_ = G, !.G_data_ = G_data,
                        !.node_ids_ = node_ids, !.data_ids_ = data_ids,
                        !.adj_ = ex.A, !.map_ = ex.M,
                        !.tcm_ = ex.TCM, !.mixtures_ = mixtures],
   origin |-> [org EXCEPT !.G_ = gen, !.adj_ = gen, !.map_ = gen,
                          !.tcm_ = gen, !.mixtures_ = gen]]

\* lines 126-139: the results and the convenience names
StoreFit(s, org, gen, G, G_data, node_ids, data_ids, ex, mixtures) ==
  [self   |-> [s EXCEPT !.G_ = G, !.G_data_ = G_data,             \* 126-127
                        !.node_ids_ = node_ids, !.data_ids_ = data_ids,
                        !.adj_ = ex.A, !.map_ = ex.M,
                        !.tcm_ = ex.TCM, !.mixtures_ = mixtures,
                        !.G = G, !.A = ex.A, !.M = ex.M, !.TCM = ex.TCM],
   origin |-> [org EXCEPT !.G_ = gen, !.adj_ = gen, !.map_ = gen,
                          !.tcm_ = gen, !.mixtures_ = gen]]

\* fit(**kw), lines 70-140, as call number gen
fit(s, h, nid, org, gen, kw) ==
  LET G == Arg(kw, "G", GNone)
      X == Arg(kw, "X", None)
      y == Arg(kw, "y", YNone)
      node_data == Arg(kw, "node_data", PyDict(<<>>))
      edge_data == Arg(kw, "edge_data", PyDict(<<>>))
      G_data == Arg(kw, "G_data", FALSE)
      s1 == SaveInputs(s, G, X, y)                                  \* 80-82
      nz == Normalize(G)                                            \* 85-92
      Gc == nz.canonical
      node_ids == NodeIds(Gc)                                       \* 95
      data_ids == DataIds(Gc, y)                                    \* 96-101
      raise(line, reached) ==
        Outcome(s1, h, nid, org,
                Call("fit", "raise", line, RetNone, kw,
                     IF reached THEN Gc ELSE EmptyMap, nz.caller))
  IN IF node_ids.raised THEN raise(node_ids.line, FALSE)
     ELSE IF data_ids.raised THEN raise(data_ids.line, FALSE)
     ELSE
       LET g0 == process_graph(Gc, y)                               \* 104
           ex == extract_matrices(g0, data_ids.val)                 \* 105
           gd == IF G_data THEN TimeIndexGraph(ex.TCM, data_ids.val, y)   \* 108-111
                 ELSE Value(<<>>)
       IN IF gd.raised THEN raise(gd.line, TRUE)
          ELSE
            LET g1 == IF node_data.kind = "None" THEN Value(g0)     \* 114-116
                      ELSE AnnotateNodeData(g0, node_data.items)
            IN IF g1.raised THEN raise(g1.line, TRUE)
               ELSE
                 LET g2 == IF edge_data.kind = "None" THEN g1       \* 117-119
                           ELSE AnnotateEdgeData(g1.val, edge_data.items)
                 IN IF g2.raised THEN raise(g2.line, TRUE)
                    ELSE
                      LET mixtures == Mixtures(ex.TCM)              \* 122
                          h1 == Put(h, nid, g2.val)
                          h2 == IF G_data THEN Put(h1, nid + 1, gd.val) ELSE h1
                          st == StoreFit(s1, org, gen, nid,
                                         IF G_data THEN Ref("MultiGraph", nid + 1) ELSE False,
                                         node_ids.val, data_ids.val, ex, mixtures)
                      IN Outcome(st.self, Collect(st.self, h2),
                                 IF G_data THEN nid + 2 ELSE nid + 1,
                                 st.origin,
                                 Call("fit", "ok", 0, RetSelf, kw, Gc, nz.caller))

(***************************************************************************)
(* transform, lines 172-199.                                               *)
(***************************************************************************)
\* lines 194-199
StoreTransform(s, org, gen, G_data, ex, mixtures) ==
  [self   |-> [s EXCEPT !.G_data_ = G_data, !.adj_ = ex.A, !.map_ = ex.M,
                        !.tcm_ = ex.TCM, !.mixtures_ = mixtures],
   origin |-> [org EXCEPT !.adj_ = gen, !.map_ = gen, !.tcm_ = gen, !.mixtures_ = gen]]

\* the names bound in transform's frame when line 184 reads G_data: the
\* parameters and the targets of line 181.  G_data is assigned at line 185,
\* which makes it a local of the function, unbound until then
TransformLocals == {"self", "X", "y", "A", "M", "TCM"}

transform(s, h, nid, org, gen, X, y) ==
  LET ex == extract_matrices(h[s.G_], GraphIndex(h[s.G_]))          \* 181
      args == [X |-> X, y |-> y]
  IN IF "G_data" \notin TransformLocals                             \* 184
     THEN Outcome(s, h, nid, org,
                  Call("transform", "raise", 184, RetNone, args, EmptyMap, GNone))
     ELSE LET st == StoreTransform(s, org, gen, False, ex, Mixtures(ex.TCM))   \* 191-198
          IN Outcome(st.self, Collect(st.self, h), nid, st.origin,
                     Call("transform", "ok", 0, RetArray(st.self.tcm_), args, EmptyMap, GNone))

(***************************************************************************)
(* The annotation calls, lines 215-285.  kwargs is the sequence of the     *)
(* <<name, values>> pairs given, in the order given.                       *)
(***************************************************************************)
\* lines 234-239: the values as a list, for the nodes of G_
NodeValues(values, nodes) ==
  IF values.kind = "ndarray" THEN values.items                      \* 235
  ELSE IF values.kind = "dict" THEN Keys(values.items)              \* 237
  ELSE IF values.kind # "list" THEN [i \in 1..Len(nodes) |-> values.items[1]]   \* 239
  ELSE values.items

\* lines 267-272
MemberValues(values) ==
  IF values.kind = "ndarray" THEN values.items                      \* 268
  ELSE IF values.kind = "dict" THEN Keys(values.items)              \* 270
  ELSE IF values.kind # "list" THEN <<values.items[1]>>             \* 272
  ELSE values.items

\* lines 233-241 on the graph object g
RECURSIVE AnnotateNodesLoop(_, _)
AnnotateNodesLoop(g, kwargs) ==
  IF kwargs = <<>> THEN g
  ELSE AnnotateNodesLoop(
         set_node_attributes(g, DictOfPairs(Zip(g.nodes, NodeValues(kwargs[1][2], g.nodes))),
                             kwargs[1][1]),
         Tail(kwargs))

\* annotate_nodes storing an annotated copy as G_, as annotate does
annotate_nodes_copy(s, h, nid, org, kwargs) ==
  LET s1 == [s EXCEPT !.G_ = nid]
  IN Outcome(s1, Collect(s1, Put(h, nid, AnnotateNodesLoop(h[s.G_], kwargs))), nid + 1, org,
             Call("annotate_nodes", "ok", 0, RetSelf, kwargs, EmptyMap, GNone))

annotate_nodes(s, h, nid, org, kwargs) ==
  Outcome(s, [h EXCEPT ![s.G_] = AnnotateNodesLoop(@, kwargs)], nid, org,
          Call("annotate_nodes", "ok", 0, RetSelf, kwargs, EmptyMap, GNone))

\* lines 266-275 on the graph object g
RECURSIVE AnnotateMembersLoop(_, _)
AnnotateMembersLoop(g, kwargs) ==
  IF kwargs = <<>> THEN g
  ELSE AnnotateMembersLoop(
         set_node_attributes(g, DictOfPairs(Zip(g.nodes, MemberValues(kwargs[1][2]))),
                             kwargs[1][1]),
         Tail(kwargs))

\* zip(self.G_data_, values) at line 274 needs an iterable: G_data_ is
\* False unless fit was called with G_data=True
annotate_members(s, h, nid, org, kwargs) ==
  IF kwargs # <<>> /\ s.G_data_.kind = "bool"
  THEN Outcome(s, h, nid, org,
               Call("annotate_members", "raise", 274, RetNone, kwargs, EmptyMap, GNone))
  ELSE Outcome(s,
               IF kwargs = <<>> THEN h
               ELSE [h EXCEPT ![s.G_data_.ref] = AnnotateMembersLoop(@, kwargs)],
               nid, org,
               Call("annotate_members", "ok", 0, RetSelf, kwargs, EmptyMap, GNone))

\* line 284: self.G_.graph.update(**kwargs)
annotate_graph(s, h, nid, org, kwargs) ==
  Outcome(s, [h EXCEPT ![s.G_] = [@ EXCEPT !.graph = Update(@, DictOfPairs(kwargs))]],
          nid, org,
          Call("annotate_graph", "ok", 0, RetSelf, kwargs, EmptyMap, GNone))

\* fit_transform(G, y), lines 149-160, as call number gen: an exception of
\* fit passes through line 159
fit_transform(s, h, nid, org, gen, G, y) ==
  LET r == fit(s, h, nid, org, gen, [G |-> G, y |-> y])            \* 159
  IN IF r.last.outcome = "ok"
     THEN [r EXCEPT !.last.op = "fit_transform",
                    !.last.ret = RetArray(r.self.tcm_)]             \* 160
     ELSE [r EXCEPT !.last.op = "fit_transform"]

\* visuals.annotate(g, **kwargs): the graph it was handed, its nodes, members
\* and edges kept, with the attribute mappings of its nodes either left
\* alone or given each keyword, and the keywords as the annotations
RECURSIVE AnnotateAll(_, _)
AnnotateAll(g, kwargs) ==
  IF kwargs = <<>> THEN g
  ELSE AnnotateAll(set_node_attributes(g, [n \in Range(g.nodes) |-> kwargs[1][2]],
                                       kwargs[1][1]),
                   Tail(kwargs))

visuals_annotate(ref, g, kwargs) ==
  {[G_ |-> ref, graph |-> g1, annotations |-> kwargs] : g1 \in {g, AnnotateAll(g, kwargs)}}

\* annotate(**kwargs), lines 202-212: the outcomes the helper allows
annotate(s, h, nid, org, kwargs) ==
  {Outcome([s EXCEPT !.G_ = a.G_, !.annotations_ = a.annotations],  \* 210-211
           [h EXCEPT ![a.G_] = a.graph], nid, org,
           Call("annotate", "ok", 0, RetSelf, kwargs, EmptyMap, GNone)) :
     a \in visuals_annotate(s.G_, h[s.G_], kwargs)}                 \* 207

RetValue(v) == [kind |-> "value", val |-> v]

\* self.cache_.get(k) is None: no such key, or the key holds None (the
\* only value kept here that is no tagged record is the flag G_data)
GetIsNone(c, k) == k \notin DOMAIN c \/ (k # "G_data" /\ c[k].kind = "None")

\* lines 59-63
RECURSIVE CacheLookup(_, _)
CacheLookup(c, args) ==
  IF args = <<>> THEN RetValue(None)                                \* 63
  ELSE IF GetIsNone(c, args[1]) THEN CacheLookup(c, Tail(args))     \* 60-61
  ELSE RetValue(c[args[1]])                                         \* 62

\* cache that stores its keyword arguments before it looks at the keys
cache_storing(s, h, nid, org, args, kwargs) ==
  LET s1 == [s EXCEPT !.cache_ = Update(@, kwargs)]
  IN Outcome(s1, h, nid, org,
             Call("cache", "ok", 0,
                  IF Len(args) > 0 THEN CacheLookup(s1.cache_, args) ELSE RetValue(s1.cache_),
                  [args |-> args, kwargs |-> kwargs], EmptyMap, GNone))

\* lines 52-66
cache(s, h, nid, org, args, kwargs) ==
  IF Len(args) > 0                                                  \* 58
  THEN Outcome(s, h, nid, org,
               Call("cache", "ok", 0, CacheLookup(s.cache_, args),
                    [args |-> args, kwargs |-> kwargs], EmptyMap, GNone))
  ELSE LET s1 == [s EXCEPT !.cache_ = Update(@, kwargs)]            \* 65
       IN Outcome(s1, h, nid, org,
                  Call("cache", "ok", 0, RetValue(s1.cache_),       \* 66
                       [args |-> args, kwargs |-> kwargs], EmptyMap, GNone))

(***************************************************************************)
(* The calls made on the facade.                                           *)
(***************************************************************************)
\* the keyword arguments fit is called with
FitCalls ==
  {[G |-> g, y |-> y] : g \in GInputs, y \in YInputs}
  \cup {[G |-> g, X |-> x] : g \in {G_ab, G_nx}, x \in XInputs}
  \cup {[G |-> G_nx0], [G |-> G_nx, node_data |-> PyDict(<< <<"color", PyDict(<< <<"a", "blue">> >>)>> >>)]}
  \cup {[G |-> g, y |-> y, G_data |-> TRUE] :
          g \in {GNone, G_ab}, y \in {YNone, YSeq(MaxLen), YFrame(MaxLen)}}
  \cup {[G |-> g, node_data |-> nd] : g \in {G_ab, G_ba}, nd \in NodeDataInputs}
  \cup {[G |-> G_ab, node_data |-> nd, edge_data |-> ed] :
          nd \in {PyDict(<<>>), PyDict(<< <<"color", Scalar("blue")>> >>)},
          ed \in EdgeDataInputs}

\* DyNeuGraph(**params)
CtorCalls == {EmptyMap, [G |-> G_ab], [G |-> G_ba, y |-> YSeq(MaxLen)],
              [G |-> G_ab, y |-> YSeq(MaxLen), G_data |-> TRUE]}

TransformCalls == {[X |-> None, y |-> YNone], [X |-> Scalar("X"), y |-> YSeq(MaxLen)]}

AnnotateNodesCalls ==
  { <<>>,
    << <<"color", PyDict(<< <<"a", "blue">> >>)>> >>,
    << <<"color", PyDict(<< <<"b", "blue">> >>)>> >>,
    << <<"color", PyList(<<"red">>)>> >>,
    << <<"color", [kind |-> "ndarray", items |-> <<"red", "green", "blue">>]>> >>,
    << <<"color", Scalar("gray")>>, <<"size", PyList(<<"big", "small">>)>> >> }

AnnotateMembersCalls ==
  { <<>>,
    << <<"image", PyList(<<"img0">>)>> >>,
    << <<"image", Scalar("img")>> >>,
    << <<"index", PyDict(<< <<0, "x">>, <<1, "y">> >>)>> >> }

AnnotateGraphCalls ==
  { <<>>, << <<"title", "t1">> >>, << <<"title", "t2">>, <<"color", "c">> >> }

FitTransformCalls == {[G |-> g, y |-> y] : g \in {G_ab, G_ba, G_nx}, y \in {YNone, YSeq(MaxLen)}}

AnnotateCalls == { <<>>, << <<"microstates", PyDict(<< <<"color", "blue">> >>)>> >> }

CacheCalls ==
  {[args |-> <<>>, kwargs |-> kw] :
     kw \in {EmptyMap, [tag |-> None], [tag |-> Scalar("v1"), G |-> GNone]}}
  \cup {[args |-> ks, kwargs |-> EmptyMap] :
          ks \in {<<"G">>, <<"tag", "G">>, <<"missing">>}}
  \cup {[args |-> <<"y", "G">>, kwargs |-> [tag |-> Scalar("v2")]]}

(***************************************************************************)
(* The state machine.                                                      *)
(***************************************************************************)
EmptyArray == ndarray(0, 0, <<>>)

\* the object before line 48: the values here are never read
Blank ==
  [cache_ |-> EmptyMap, G_input_ |-> GNone, X_ |-> None, y_ |-> YNone,
   G_ |-> 0, G_data_ |-> False, node_ids_ |-> <<>>, data_ids_ |-> <<>>,
   adj_ |-> EmptyArray, map_ |-> EmptyArray, tcm_ |-> EmptyArray, mixtures_ |-> <<>>,
   G |-> 0, A |-> EmptyArray, M |-> EmptyArray, TCM |-> EmptyArray,
   annotations_ |-> <<>>]

NoOrigin == [G_ |-> 0, adj_ |-> 0, map_ |-> 0, tcm_ |-> 0, mixtures_ |-> 0]

\* lines 48-49: __init__(**params) keeps the parameters and fits; the
\* object exists only if that fit returned
Init ==
  \E params \in CtorCalls :
    LET r == fit([Blank EXCEPT !.cache_ = params], EmptyMap, 1, NoOrigin, 0, params)
    IN /\ r.last.outcome = "ok"
       /\ self = r.self
       /\ heap = r.heap
       /\ nextId = r.nextId
       /\ origin = r.origin
       /\ last = [r.last EXCEPT !.op = "__init__"]
       /\ calls = 0

Becomes(r) ==
  /\ self' = r.self
  /\ heap' = r.heap
  /\ nextId' = r.nextId
  /\ origin' = r.origin
  /\ last' = r.last
  /\ calls' = calls + 1

Fit(kw) ==
  /\ calls < MaxCalls
  /\ \E r \in {fit(self, heap, nextId, origin, calls + 1, kw)} : Becomes(r)

Transform(args) ==
  /\ calls < MaxCalls
  /\ \E r \in {transform(self, heap, nextId, origin, calls + 1, args.X, args.y)} : Becomes(r)

AnnotateNodes(kwargs) ==
  /\ calls < MaxCalls
  /\ \E r \in {annotate_nodes(self, heap, nextId, origin, kwargs)} : Becomes(r)

AnnotateMembers(kwargs) ==
  /\ calls < MaxCalls
  /\ \E r \in {annotate_members(self, heap, nextId, origin, kwargs)} : Becomes(r)

AnnotateGraph(kwargs) ==
  /\ calls < MaxCalls
  /\ \E r \in {annotate_graph(self, heap, nextId, origin, kwargs)} : Becomes(r)

FitTransform(args) ==
  /\ calls < MaxCalls
  /\ \E r \in {fit_transform(self, heap, nextId, origin, calls + 1, args.G, args.y)} : Becomes(r)

Annotate(kwargs) ==
  /\ calls < MaxCalls
  /\ \E r \in annotate(self, heap, nextId, origin, kwargs) : Becomes(r)

Cache(c) ==
  /\ calls < MaxCalls
  /\ \E r \in {cache(self, heap, nextId, origin, c.args, c.kwargs)} : Becomes(r)

Next ==
  \/ \E kw \in FitCalls : Fit(kw)
  \/ \E args \in TransformCalls : Transform(args)
  \/ \E kwargs \in AnnotateNodesCalls : AnnotateNodes(kwargs)
  \/ \E kwargs \in AnnotateMembersCalls : AnnotateMembers(kwargs)
  \/ \E kwargs \in AnnotateGraphCalls : AnnotateGraph(kwargs)
  \/ \E args \in FitTransformCalls : FitTransform(args)
  \/ \E kwargs \in AnnotateCalls : Annotate(kwargs)
  \/ \E c \in CacheCalls : Cache(c)

Spec == Init /\ [][Next]_vars

(***************************************************************************)
(* Properties.                                                             *)
(***************************************************************************)
\* the latest call was a fit (or the constructor's fit) and it returned
FitOk == last.op \in {"fit", "__init__"} /\ last.outcome = "ok"

\* the row positions of a stored matrix, 0-based
Positions(a) == 0..(a.shape[1] - 1)

\* the time index at row position t belongs to at least one node of G_
InSomeNode(t) ==
  \E n \in Range(heap[self.G_].nodes) : self.data_ids_[t + 1] \in Range(heap[self.G_].members[n])

IsSymmetric(a) ==
  /\ a.shape[1] = a.shape[2]
  /\ \A i, j \in 1..a.shape[1] : a.val[i][j] = a.val[j][i]

IsAscending(s) == \A i, j \in 1..Len(s) : i < j => s[i] < s[j]

\* C1: on a fitted facade every call to transform completes without error,
\* leaves G_, node_ids_ and data_ids_ as they were, stores A, M, TCM and the
\* mixtures extracted from the stored graph G_, and returns the stored TCM.
C1_TransformCompletes ==
  last.op = "transform" =>
    /\ last.outcome = "ok"
    /\ last.ret = RetArray(self.tcm_)
    /\ self.mixtures_ = Mixtures(self.tcm_)
    /\ origin.tcm_ = calls /\ origin.adj_ = calls /\ origin.map_ = calls
    /\ origin.mixtures_ = calls

\* C2: after any sequence of fit and transform calls, G_, adj_, map_, tcm_
\* and mixtures_ were all computed by one and the same call, and the
\* matrices are the ones of the stored graph G_; after a fit that returned,
\* that call is this fit.
C2_OneCall ==
  /\ \A f \in DOMAIN origin : origin[f] = origin.G_
  /\ FitOk => origin.G_ = calls
  /\ LET ex == extract_matrices(heap[self.G_], self.data_ids_)
     IN /\ self.adj_ = ex.A
        /\ self.map_ = ex.M
        /\ self.tcm_ = ex.TCM
        /\ self.mixtures_ = Mixtures(ex.TCM)

\* a second fit, on another graph than the constructor's, has returned
C2_Witness ==
  /\ last.op = "fit" /\ last.outcome = "ok"
  /\ "G" \in DOMAIN self.cache_ /\ self.cache_.G = G_ab
  /\ self.G_input_ = G_ba
  /\ self.node_ids_ = <<"a", "b">> /\ self.adj_.val = <<<<0, 0>>, <<0, 0>>>>

\* C3: a fit or transform call that raises leaves every attribute of the
\* facade with the value it had before the call.
C3_FailedCallKeepsState ==
  [][last'.outcome = "raise" /\ last'.op \in {"fit", "transform"} => self' = self]_vars

\* C4: data_ids_ after fit: the row index of y when y is a table with its
\* own index, 0..len(y)-1 when y is a plain sequence, and the sorted,
\* duplicate-free union of the member indices of the input's nodes when y
\* is absent.
MemberUnion == AllMembers(last.canonical.nodes.items)

C4_TimeIndexSet ==
  FitOk =>
    /\ self.y_.kind = "DataFrame" =>
         self.data_ids_ \in {self.y_.index, SortInts(Range(self.y_.index))}
    /\ self.y_.kind = "seq" => self.data_ids_ = Arange(PyLen(self.y_))
    /\ self.y_.kind = "None" =>
         /\ Range(self.data_ids_) = MemberUnion
         /\ IsAscending(self.data_ids_)

\* C4 as the code has it: a table is reset to the row positions
\* 0..len(y)-1, whatever its own row index; the other two cases as stated.
C4_TimeIndexSetAmended ==
  FitOk =>
    /\ self.y_.kind \in {"DataFrame", "seq"} => self.data_ids_ = Arange(PyLen(self.y_))
    /\ self.y_.kind = "None" =>
         /\ Range(self.data_ids_) = MemberUnion
         /\ IsAscending(self.data_ids_)

\* a fit with a table whose row index is not 0..len(y)-1, on a graph whose
\* members are unsorted and repeated
C4_Witness ==
  /\ FitOk
  /\ self.y_.kind = "DataFrame"
  /\ self.y_.index # Arange(PyLen(self.y_))
  /\ self.G_input_ = G_ba
  /\ self.data_ids_ = Arange(MaxLen)

\* C5: mixtures_ has one entry per row of the stored TCM; position u is in
\* mixtures_[t] iff TCM[t][u] is non-zero; the entries ascend; t is in
\* mixtures_[t] iff t belongs to at least one node, and mixtures_[t] is
\* empty otherwise; u in mixtures_[t] iff t in mixtures_[u].
C5_MixturesOfTCM ==
  /\ Len(self.mixtures_) = self.tcm_.shape[1]
  /\ \A t \in Positions(self.tcm_) :
       LET mix == self.mixtures_[t + 1]
       IN /\ IsAscending(mix)
          /\ \A u \in Positions(self.tcm_) :
               /\ u \in Range(mix) <=> self.tcm_.val[t + 1][u + 1] # 0
               /\ u \in Range(mix) <=> t \in Range(self.mixtures_[u + 1])
          /\ Range(mix) \subseteq Positions(self.tcm_)
          /\ t \in Range(mix) <=> InSomeNode(t)
          /\ ~InSomeNode(t) => mix = <<>>

\* a fit left one position with several connected positions and another
\* with none
C5_Witness ==
  /\ last.op = "fit" /\ last.outcome = "ok"
  /\ \E t \in Positions(self.tcm_) : Len(self.mixtures_[t + 1]) >= 2
  /\ \E t \in Positions(self.tcm_) : self.mixtures_[t + 1] = <<>>

\* C6: fitting nodes a={0,1,2}, b={2,3} with the edge (a,b) and no label
\* sequence gives node_ids_ = [a, b], data_ids_ = 0..3, M with rows {a},
\* {a}, {a,b}, {b}, A = [[0,1],[1,0]], TCM non-zero exactly where
\* [[1,1,1,0],[1,1,1,0],[1,1,1,1],[0,0,1,1]] is, and the mixtures {0,1,2},
\* {0,1,2}, {0,1,2,3}, {2,3}; for every fit, A and TCM are symmetric and
\* TCM[t][t] is non-zero iff t belongs to at least one node.
NonzeroPattern(a) == [i \in 1..Len(a.val) |-> [j \in 1..Len(a.val[i]) |->
                        IF a.val[i][j] # 0 THEN 1 ELSE 0]]

C6_TwoNodeScenario ==
  /\ (FitOk /\ self.G_input_ = G_ab /\ self.y_ = YNone) =>
       /\ self.node_ids_ = <<"a", "b">>
       /\ self.data_ids_ = <<0, 1, 2, 3>>
       /\ self.map_.val = <<<<1, 0>>, <<1, 0>>, <<1, 1>>, <<0, 1>>>>
       /\ self.adj_.val = <<<<0, 1>>, <<1, 0>>>>
       /\ NonzeroPattern(self.tcm_) =
            <<<<1, 1, 1, 0>>, <<1, 1, 1, 0>>, <<1, 1, 1, 1>>, <<0, 0, 1, 1>>>>
       /\ self.mixtures_ = <<<<0, 1, 2>>, <<0, 1, 2>>, <<0, 1, 2, 3>>, <<2, 3>>>>
  /\ IsSymmetric(self.adj_)
  /\ IsSymmetric(self.tcm_)
  /\ \A t \in Positions(self.tcm_) : self.tcm_.val[t + 1][t + 1] # 0 <=> InSomeNode(t)

\* the scenario has been fitted over an earlier state of the facade
C6_Witness ==
  /\ last.op = "fit" /\ last.outcome = "ok"
  /\ self.G_input_ = G_ab /\ self.y_ = YNone
  /\ self.tcm_.shape = <<4, 4>>

\* C7: fit(G, y) with G absent or a node/link form without nodes and links
\* (the other parameters at their defaults) returns, for a label sequence
\* of any length T >= 0 and for none (T = 0): no node ids, the time index
\* set 0..T-1, A of shape 0x0, M of shape Tx0, an all-zero TxT TCM and T
\* empty mixtures.
EmptyGraphFit ==
  /\ last.op \in {"fit", "__init__"}
  /\ Arg(last.args, "G", GNone) \in {GNone, G_empty}
  /\ DOMAIN last.args \subseteq {"G", "y"}

AnnotateOps == {"annotate_nodes", "annotate_members", "annotate_graph"}

C8_AnnotateFrame ==
  [][last'.op \in AnnotateOps =>
       /\ self' = self
       /\ DOMAIN heap' = DOMAIN heap
       /\ \A id \in DOMAIN heap :
            /\ heap'[id].nodes = heap[id].nodes
            /\ heap'[id].members = heap[id].members
            /\ heap'[id].edges = heap[id].edges
            /\ heap'[id].type = heap[id].type]_vars

\* a node attribute and then a graph attribute have been set on G_
C8_Witness ==
  /\ last.op = "annotate_graph" /\ last.outcome = "ok"
  /\ "title" \in DOMAIN heap[self.G_].graph
  /\ \E n \in Range(heap[self.G_].nodes) : "color" \in DOMAIN heap[self.G_].attrs[n]
  /\ self.adj_.shape = <<2, 2>>

\* C9: annotate_nodes(name=values), values a dict keyed by node, gives each
\* listed node its value for attribute `name` and leaves every other node
\* as it was (without the key, if it had none).
DictKwargs(kwargs) == Len(kwargs) = 1 /\ kwargs[1][2].kind = "dict"

C9_AnnotateNodesByKey ==
  [][(last'.op = "annotate_nodes" /\ DictKwargs(last'.args)) =>
       LET name == last'.args[1][1]
           values == DictOfPairs(last'.args[1][2].items)
       IN \A n \in Range(heap[self.G_].nodes) :
            IF n \in DOMAIN values
            THEN /\ name \in DOMAIN heap'[self.G_].attrs[n]
                 /\ heap'[self.G_].attrs[n][name] = values[n]
            ELSE heap'[self.G_].attrs[n] = heap[self.G_].attrs[n]]_vars

\* C10: the canonical graph handed to process_graph has a nodes and a
\* links key; with G absent both are empty; with G a serialized form each
\* of its entries is kept and only the missing keys are empty defaults;
\* the caller's form is left as it was.
HandedToProcessor ==
  /\ last.op \in {"fit", "__init__"}
  /\ last.outcome = "ok" \/ last.line > 104

C10_CanonicalGraph ==
  HandedToProcessor =>
    LET G == self.G_input_
        Gc == last.canonical
    IN /\ {"nodes", "links"} \subseteq DOMAIN Gc
       /\ G.kind = "None" => Gc = [nodes |-> PyDict(<<>>), links |-> PyDict(<<>>)]
       /\ G.kind = "dict" =>
            /\ \A k \in DOMAIN G.d : Gc[k] = G.d[k]
            /\ \A k \in DOMAIN Gc \ DOMAIN G.d : k \in {"nodes", "links"} /\ Gc[k] = PyDict(<<>>)
       /\ last.caller = G

\* a form without a links key has been fitted
C10_Witness ==
  /\ last.op = "fit" /\ last.outcome = "ok"
  /\ self.G_input_ = G_ba
  /\ "links" \notin DOMAIN last.caller.d
  /\ last.canonical.links = PyDict(<<>>)
  /\ last.canonical.nodes = G_ba.d.nodes

\* C11: fit on a networkx graph works on a converted copy and returns (the
\* node ids and the time index set are derived from the converted form
\* without error), and the caller's graph is left as it was, also when
\* node_data or edge_data are passed.
FitOnGraphObject ==
  /\ last.op \in {"fit", "__init__"}
  /\ self.G_input_.kind = "nx"

C11_FitOnGraphObject ==
  FitOnGraphObject =>
    /\ last.outcome = "ok"
    /\ last.caller = self.G_input_

\* C12: annotate_nodes and annotate_members never raise on a size mismatch.
\* Given a list of k values for N nodes (members), the first min(k, N) nodes
\* in iteration order get the value at their position, the nodes after them
\* are left as they were, and values beyond N are ignored; a single value
\* that is no list and no dict, given to annotate_nodes, goes to every node.
SizedKwargs(op, kwargs) ==
  /\ Len(kwargs) = 1
  /\ \/ kwargs[1][2].kind \in {"list", "ndarray"}
     \/ op = "annotate_nodes" /\ kwargs[1][2].kind = "scalar"

AnnotatedGraph(op) == IF op = "annotate_nodes" THEN self.G_ ELSE self.G_data_.ref

PositionalAnnotation(op, kwargs) ==
  LET name == kwargs[1][1]
      values == kwargs[1][2]
      target == AnnotatedGraph(op)
      nodes == heap[target].nodes
  IN \A i \in 1..Len(nodes) :
       IF values.kind = "scalar"
       THEN /\ name \in DOMAIN heap'[target].attrs[nodes[i]]
            /\ heap'[target].attrs[nodes[i]][name] = values.items[1]
       ELSE IF i <= Len(values.items)
       THEN /\ name \in DOMAIN heap'[target].attrs[nodes[i]]
            /\ heap'[target].attrs[nodes[i]][name] = values.items[i]
       ELSE heap'[target].attrs[nodes[i]] = heap[target].attrs[nodes[i]]

C12_SizeMismatch ==
  [][(last'.op \in {"annotate_nodes", "annotate_members"}
        /\ SizedKwargs(last'.op, last'.args)) =>
       /\ last'.outcome = "ok"
       /\ PositionalAnnotation(last'.op, last'.args)]_vars

\* C13: the cache starts as the constructor's parameters.  cache(k1, ..., kn)
\* with at least one key returns the stored value of the first key, in
\* argument order, whose stored value is not None, returns None when there
\* is no such key, and leaves the cache as it was, keyword arguments of the
\* same call included; cache(**kw) without a key gives every key of kw its
\* new value, leaves the other keys as they were and returns the whole cache.
CacheHits(c, args) == {i \in 1..Len(args) : ~GetIsNone(c, args[i])}

C13_Cache ==
  [][/\ last.op = "__init__" => self.cache_ = last.args
     /\ last'.op = "cache" =>
          LET args == last'.args.args
              kw == last'.args.kwargs
              hits == CacheHits(self.cache_, args)
          IN IF Len(args) > 0
             THEN /\ self'.cache_ = self.cache_
                  /\ IF hits = {}
                     THEN last'.ret = RetValue(None)
                     ELSE \E i \in hits :
                            /\ \A j \in hits : i <= j
                            /\ last'.ret = RetValue(self.cache_[args[i]])
             ELSE /\ DOMAIN self'.cache_ = DOMAIN self.cache_ \cup DOMAIN kw
                  /\ \A k \in DOMAIN kw : self'.cache_[k] = kw[k]
                  /\ \A k \in DOMAIN self.cache_ \ DOMAIN kw :
                       self'.cache_[k] = self.cache_[k]
                  /\ last'.ret = RetValue(self'.cache_)]_vars

\* a key with no stored value was skipped and the value of the next key
\* returned, the keyword argument of that call not being stored
C13_Witness ==
  /\ last.op = "cache"
  /\ last.args.args = <<"y", "G">>
  /\ "tag" \notin DOMAIN self.cache_
  /\ "y" \notin DOMAIN self.cache_
  /\ last.ret = RetValue(G_ab)

\* a key-less call has overwritten the constructor's G and added a key
C13_WitnessUpdate ==
  /\ last.op = "cache"
  /\ last.args.args = <<>>
  /\ DOMAIN self.cache_ = {"G", "y", "tag"}
  /\ self.cache_.G = GNone
  /\ self.G_input_ = G_ba

C14_WitnessFitTransform ==
  /\ last.op = "fit_transform" /\ last.outcome = "ok"
  /\ self.cache_ = [G |-> G_ab]
  /\ self.G_input_ = G_ba
  /\ last.ret.val.shape[1] > 0

====
